---- MODULE Spec2Model ----
(***************************************************************************)
(* Model of the aico change-review pipeline: the batch dispatcher of the   *)
(* `review` and `ci` commands and the ci command's aggregation and output  *)
(* (src/unnamed/part_011), the diff segmenter getDiffChunks                *)
(* (src/unnamed/part_001), the report formatter (src/unnamed/part_004)     *)
(* and the finding parser parseAIResponse (src/unnamed/part_003), the       *)
(* commit command and init (src/unnamed/part_011), the global config       *)
(* (src/unnamed/part_005) and the AI client (src/unnamed/part_009).        *)
(***************************************************************************)
EXTENDS Integers, Sequences, FiniteSets, TLC

(***************************************************************************)
(* Bounds of the model.                                                    *)
(***************************************************************************)
\* Largest number of chunks a staged diff is split into.
MaxChunks == 7
\* Largest number of findings parsed from one oracle reply.
MaxFindings == 1
\* Longest diff text enumerated symbol by symbol.
MaxTokens == 5
\* Largest number of file-patches in a diff assembled from patch bodies.
MaxFiles == 3
\* Largest number of chunks of a ci run whose options are all enumerated.
MaxCIChunks == 2
\* Largest number of chunks of a review run followed through its prompts.
MaxReviewChunks == 4
\* Largest number of chunks of a run checked for termination.
MaxLiveChunks == 6
\* Longest findings list given to getExitCode on its own.
MaxIssues == 2
\* Longest message of a finding given to formatXML on its own.
MaxText == 2
\* Longest oracle reply enumerated token by token.
MaxResponse == 4
\* Largest number of blocks in an oracle reply assembled from block bodies.
MaxBlocks == 2
\* Longest commit message generated or typed.
MaxMessage == 3
\* Most runs of init.
MaxInits == 2

(***************************************************************************)
(* Program constants.                                                      *)
(***************************************************************************)
CONCURRENCY_LIMIT == 3
PACING_DELAY_MS == 1500
GIANT_DIFF_CHUNKS == 5
MAX_DIFF_SIZE == 30000
\* 'diff --git '.length
MarkerLen == 11

VARIABLES
    command,    \* "review" or "ci": which command main() runs
    isSilent,   \* --silent / -s given
    pc,         \* where the command's async function is suspended
    chunks,     \* the chunks array, as the sequence of chunk ids
    i,          \* loop index of the dispatch loop
    calls,      \* state of the reviewCode promise of each chunk
    responses,  \* text the oracle resolved with, per chunk (number of blocks)
    allIssues,  \* the findings accumulator
    stderr,     \* what console.error printed
    timer,      \* duration of the pending setTimeout, 0 when none
    exitCode,   \* status the process ends with (0 unless process.exit(1) ran)
    issueIdx,   \* position in allIssues of the issue being prompted, 0 if none
    strategy,   \* answer given to the strategy prompt, "none" while not asked
    options,    \* the ci command's parsed options
    ruleResults,\* what the team-rules validation finds, per file of the diff
    writable,   \* whether writeFileSync to the output path succeeds
    stdout,     \* what console.log printed
    outFile,    \* content of the file at the output path: <<>> or <<content>>
    fmtPc,      \* formatter function under call, "idle" when none
    issuesArg,  \* its argument issues
    optionsArg, \* its argument options (getExitCode)
    exitStatus, \* value getExitCode returned
    xmlReport,  \* value formatXML returned: <<>> or <<report>>
    jsonReports,\* values the calls of formatJSON returned, in order
    clock,      \* what new Date() reads
    parsePc,    \* "idle", "called" or "returned": the call of parseAIResponse
    aiResponse, \* its argument: the oracle's reply, as a sequence of tokens
    parsed,     \* the list it returned
    diff,       \* argument of getDiffChunks: a text, as a sequence of symbols
    diffChunks, \* value getDiffChunks returned
    segPc,      \* "idle", "called" (argument chosen) or "returned"
    commitPc,   \* where the commit command is suspended, "idle" when not run
    message,    \* the commit command's variable message
    commits,    \* messages of the commits git made, in order
    configFile, \* content of ~/.aicorc: <<>> or <<config>>
    initRuns,   \* the configs init handed to saveGlobalConfig, in order
    ai,         \* the AIClient of the process that last asked the oracle
    chatPc      \* "idle", or how its createChatCompletion ended

dispatchVars == <<command, isSilent, pc, chunks, i, calls, responses,
                  allIssues, stderr, timer, exitCode, issueIdx>>
segVars == <<diff, diffChunks, segPc>>
ciVars == <<options, ruleResults, writable, stdout, outFile>>
fmtVars == <<fmtPc, issuesArg, optionsArg, exitStatus, xmlReport,
             jsonReports, clock>>
parseVars == <<parsePc, aiResponse, parsed>>
pureVars == <<fmtVars, parseVars>>
commitVars == <<commitPc, message, commits>>
configVars == <<configFile, initRuns>>
clientVars == <<ai, chatPc>>
toolVars == <<commitVars, configVars, clientVars>>
vars == <<dispatchVars, segVars, strategy, ciVars, pureVars, toolVars>>

ChunkIds == 1..MaxChunks

(***************************************************************************)
(* Findings and the report formatter (src/unnamed/part_004).               *)
(*                                                                         *)
(* A string is a sequence of characters; <<>> stands for every falsy       *)
(* string value ('', null, undefined).  A finding is the object pushed to  *)
(* allIssues: severity is "undefined" when the object has no such          *)
(* property; chunk and block say where an oracle finding came from (0, 0   *)
(* for a finding made from a rule violation).                              *)
(***************************************************************************)
Finding(c, b, file, sev, issue, sugg, rule) ==
    [chunk |-> c, block |-> b, file |-> file, severity |-> sev,
     issue |-> issue, suggestion |-> sugg, rule |-> rule]

IsError(f) == f.severity = "error"
IsWarning(f) == f.severity = "warn" \/ f.severity = "warning"
IsInfo(f) == f.severity = "info"

\* a || b on strings
OrElse(a, b) == IF a # <<>> THEN a ELSE b

\* Summary that counts every finding without an error severity as a warning.
Summary_RestAsWarnings(issues) ==
    [totalIssues |-> Len(issues),
     errors |-> Len(SelectSeq(issues, IsError)),
     warnings |-> Len(issues) - Len(SelectSeq(issues, IsError)),
     info |-> 0]

\* const summary = { totalIssues, errors, warnings, info } of formatJSON and
\* formatText.
Summary(issues) ==
    [totalIssues |-> Len(issues),
     errors |-> Len(SelectSeq(issues, IsError)),
     warnings |-> Len(SelectSeq(issues, IsWarning)),
     info |-> Len(SelectSeq(issues, IsInfo))]

RECURSIVE ReplaceAll(_, _, _)
\* str.replace(/ch/g, rep)
ReplaceAll(str, ch, rep) ==
    IF str = <<>> THEN <<>>
    ELSE (IF Head(str) = ch THEN rep ELSE <<Head(str)>>)
         \o ReplaceAll(Tail(str), ch, rep)

\* The replacement strings of escapeXml, as written in part_004 193-197.
AmpEntity == <<"&", "a", "m", "p", ";">>
AposEntity == <<"&", "a", "p", "o", "s", ";">>

escapeXml(str) ==
    IF str = <<>> THEN <<>>
    ELSE ReplaceAll(
           ReplaceAll(
             ReplaceAll(
               ReplaceAll(
                 ReplaceAll(str, "&", AmpEntity),
                 "<", <<"<">>),
               ">", <<">">>),
             "\"", <<"\"">>),
           "'", AposEntity)

RECURSIVE FilesInOrder(_, _)
\* The keys of issuesByFile in insertion order: each file at its first finding.
FilesInOrder(issues, seen) ==
    IF issues = <<>> THEN <<>>
    ELSE LET file == OrElse(Head(issues).file, <<"unknown">>)
         IN IF file \in seen
            THEN FilesInOrder(Tail(issues), seen)
            ELSE <<file>> \o FilesInOrder(Tail(issues), seen \cup {file})

\* issuesByFile[file]
IssuesOfFile(issues, file) ==
    SelectSeq(issues, LAMBDA f : OrElse(f.file, <<"unknown">>) = file)

RECURSIVE Concat(_)
\* The sequences of a list joined in order.
Concat(ss) == IF ss = <<>> THEN <<>> ELSE Head(ss) \o Concat(Tail(ss))

\* Object.entries(issuesByFile) unrolled: the findings file by file.
GroupedIssues(issues) ==
    LET files == FilesInOrder(issues, {})
    IN Concat([j \in 1..Len(files) |-> IssuesOfFile(issues, files[j])])

\* formatJSON that also stamps the summary with the time of the call.
formatJSON_StampedSummary(issues, metadata, now) ==
    [kind |-> "json",
     summary |-> [totalIssues |-> Len(issues), generatedAt |-> now],
     issues |-> [j \in 1..Len(issues) |->
                    [file |-> issues[j].file,
                     severity |-> issues[j].severity,
                     message |-> issues[j].issue,
                     suggestion |-> issues[j].suggestion,
                     rule |-> OrElse(issues[j].rule, <<"unknown">>)]],
     metadata |-> [timestamp |-> now,
                   duration |-> metadata.duration,
                   provider |-> metadata.provider,
                   model |-> metadata.model,
                   version |-> metadata.version]]

\* formatJSON(issues, metadata), the timestamp now being read from the clock.
formatJSON(issues, metadata, now) ==
    [kind |-> "json",
     summary |-> Summary(issues),
     issues |-> [j \in 1..Len(issues) |->
                    [file |-> issues[j].file,
                     severity |-> issues[j].severity,
                     message |-> issues[j].issue,
                     suggestion |-> issues[j].suggestion,
                     rule |-> OrElse(issues[j].rule, <<"unknown">>)]],
     metadata |-> [timestamp |-> now,
                   duration |-> metadata.duration,
                   provider |-> metadata.provider,
                   model |-> metadata.model,
                   version |-> metadata.version]]

\* One <testcase> of formatXML.
XmlTestcase(f) ==
    LET file == OrElse(f.file, <<"unknown">>)
    IN IF IsError(f)
       THEN [name |-> escapeXml(file), element |-> "failure",
             message |-> escapeXml(f.issue),
             type |-> escapeXml(OrElse(f.rule, <<"e", "r", "r", "o", "r">>)),
             text |-> <<escapeXml(file), escapeXml(f.issue)>>
                      \o (IF f.suggestion # <<>>
                          THEN <<escapeXml(f.suggestion)>> ELSE <<>>)]
       ELSE IF IsWarning(f)
       THEN [name |-> escapeXml(file), element |-> "skipped",
             message |-> escapeXml(f.issue), type |-> <<>>, text |-> <<>>]
       ELSE [name |-> escapeXml(file), element |-> "none",
             message |-> <<>>, type |-> <<>>, text |-> <<>>]

formatXML(issues, metadata) ==
    LET grouped == GroupedIssues(issues)
    IN [kind |-> "xml",
        tests |-> Len(issues),
        failures |-> Len(SelectSeq(issues, IsError)),
        skipped |-> Len(SelectSeq(issues, IsWarning)),
        time |-> metadata.duration,
        testcases |-> [j \in 1..Len(grouped) |-> XmlTestcase(grouped[j])]]

formatGitHubActions(issues) ==
    [kind |-> "github",
     lines |-> [j \in 1..Len(issues) |->
                   [level |-> IF IsError(issues[j]) THEN "error" ELSE "warning",
                    file |-> OrElse(issues[j].file, <<"unknown">>),
                    message |-> issues[j].issue]]]

formatText(issues, metadata) ==
    LET grouped == GroupedIssues(issues)
    IN [kind |-> "text",
        summary |-> Summary(issues),
        issues |-> [j \in 1..Len(grouped) |->
                       [file |-> OrElse(grouped[j].file, <<"unknown">>),
                        icon |-> IF IsError(grouped[j]) THEN "[ERROR]"
                                 ELSE IF IsWarning(grouped[j]) THEN "[WARN]"
                                 ELSE "[INFO]",
                        message |-> grouped[j].issue,
                        suggestion |-> grouped[j].suggestion]],
        duration |-> metadata.duration]

\* switch (format.toLowerCase()) of handleCICommand (part_011 1033-1049).
FormatOutput(format, issues, metadata, now) ==
    IF format = "json" THEN formatJSON(issues, metadata, now)
    ELSE IF format = "xml" THEN formatXML(issues, metadata)
    ELSE IF format = "github" THEN formatGitHubActions(issues)
    ELSE formatText(issues, metadata)

\* filterBySeverity(issues, severity)
filterBySeverity(issues, severity) ==
    IF severity = "null" THEN issues
    ELSE LET allowed == IF severity \in {"warn", "warning"}
                        THEN {"warn", "warning"} ELSE {severity}
         IN SelectSeq(issues, LAMBDA f : f.severity \in allowed)

\* getExitCode with --fail-on-warn looking at warnings only.
getExitCode_WarnOnly(issues, opts) ==
    LET errors == Len(SelectSeq(issues, IsError))
        warnings == Len(SelectSeq(issues, IsWarning))
    IN IF opts.severity = "error" /\ errors > 0 THEN 1
       ELSE IF opts.severity = "warn" /\ warnings > 0 THEN 1
       ELSE IF opts.failOnError /\ errors > 0 THEN 1
       ELSE IF opts.failOnWarn /\ warnings > 0 THEN 1
       ELSE 0

\* getExitCode(issues, { failOnError, failOnWarn, severity })
getExitCode(issues, opts) ==
    LET errors == Len(SelectSeq(issues, IsError))
        warnings == Len(SelectSeq(issues, IsWarning))
    IN IF opts.severity = "error" /\ errors > 0 THEN 1
       ELSE IF opts.severity = "warn" /\ warnings > 0 THEN 1
       ELSE IF opts.failOnError /\ errors > 0 THEN 1
       ELSE IF opts.failOnWarn /\ (warnings > 0 \/ errors > 0) THEN 1
       ELSE 0

(***************************************************************************)
(* Helpers of the dispatch loop.                                           *)
(***************************************************************************)
Min(a, b) == IF a < b THEN a ELSE b

\* chunks.slice(i, i + CONCURRENCY_LIMIT), as the set of chunk ids.
currentBatch(cs, idx) ==
    {k \in 1..Len(cs) : idx < k /\ k <= idx + CONCURRENCY_LIMIT}

\* Math.floor(i / CONCURRENCY_LIMIT) + 1
batchIndex(idx) == (idx \div CONCURRENCY_LIMIT) + 1

\* The window a chunk id belongs to.
BatchOf(k) == batchIndex(k - 1)

\* Math.ceil(chunks.length / CONCURRENCY_LIMIT)
totalBatches(cs) == (Len(cs) + CONCURRENCY_LIMIT - 1) \div CONCURRENCY_LIMIT

\* parseAIResponse(aiResponse) for the reply to chunk k holding r well-formed
\* blocks: r findings, in the order of the blocks.
parseAIResponse(k, r) ==
    [j \in 1..r |-> Finding(k, j, <<"f">>, "undefined", <<"m">>, <<"s">>, <<>>)]

RECURSIVE BatchIssues(_, _, _, _)
\* for (const aiResponse of batchResults) allIssues.push(...parseAIResponse(aiResponse))
\* batchResults is in the order of currentBatch (Promise.all keeps positions).
BatchIssues(acc, lo, hi, resp) ==
    IF lo > hi THEN acc
    ELSE BatchIssues(acc \o parseAIResponse(lo, resp[lo]), lo + 1, hi, resp)

\* currentBatch.map(chunk => reviewCode(chunk)): every call of the window is
\* started synchronously, before the await.
StartBatch(cl, cs, idx) ==
    [k \in ChunkIds |-> IF k \in currentBatch(cs, idx) THEN "pending" ELSE cl[k]]

InFlight == {k \in ChunkIds : calls[k] = "pending"}

\* The process is alive: it has neither returned from main nor called process.exit.
Running == pc \notin {"returned", "exited"}

(***************************************************************************)
(* The ci command after the dispatch loop (part_011 980-1061).             *)
(***************************************************************************)
\* Options of a ci run given no option at all.
DefaultOptions ==
    [format |-> "text", output |-> "null", failOnError |-> FALSE,
     failOnWarn |-> FALSE, severity |-> "null"]

\* const metadata = { timestamp, duration, provider, model, version: '1.1.0' }
Metadata ==
    [timestamp |-> "now", duration |-> "elapsed", provider |-> "provider",
     model |-> "model", version |-> "1.1.0"]

\* const emptyResult = {...}; JSON.stringify(emptyResult, null, 2)
EmptyResult ==
    [kind |-> "json",
     summary |-> [totalIssues |-> 0, errors |-> 0, warnings |-> 0, info |-> 0],
     issues |-> <<>>,
     metadata |-> [timestamp |-> "now", duration |-> 0, provider |-> "null",
                   model |-> "null"]]

\* A line of standard output: the formatted report, or a fixed message.
NoBody == [kind |-> "none"]
Line(tag, body) == [tag |-> tag, body |-> body]

\* allIssues.push({ file, severity, issue, suggestion: null, rule }) for one
\* violation.
ViolationFinding(v) == Finding(0, 0, v.file, v.severity, v.message, <<>>, v.type)

\* The violations validateAgainstRules returned, over the files of the diff
\* that have a path, exist and can be read, in the order of the files.
Violations(results) ==
    Concat([j \in 1..Len(results) |->
               IF results[j].read THEN results[j].violations ELSE <<>>])

\* The findings the rules validation pushes, in order.
RuleFindings(results) ==
    LET vs == Violations(results)
    IN [j \in 1..Len(vs) |-> ViolationFinding(vs[j])]

\* let filteredIssues = severity ? filterBySeverity(allIssues, severity) : allIssues
filteredIssues(issues, opts) ==
    IF opts.severity # "null" THEN filterBySeverity(issues, opts.severity)
    ELSE issues

\* The report of a run whose aggregated findings are issues.
formattedOutput(issues, opts) ==
    FormatOutput(opts.format, filteredIssues(issues, opts), Metadata, "now")

\* saveToFile(content, filepath): the write, or the error message when
\* writeFileSync throws.
saveToFile(content) ==
    IF writable
    THEN /\ outFile' = <<content>>
         /\ UNCHANGED stderr
    ELSE /\ stderr' = Append(stderr, <<"saveToFile">>)
         /\ UNCHANGED outFile

\* The empty-diff branch whose exit status follows --fail-on-error.
CIEmptyDiff_FailOnFlag ==
    /\ IF options.format = "json"
       THEN IF options.output # "null"
            THEN /\ saveToFile(EmptyResult)
                 /\ UNCHANGED stdout
            ELSE /\ stdout' = Append(stdout, Line("report", EmptyResult))
                 /\ UNCHANGED <<outFile, stderr>>
       ELSE /\ stdout' = Append(stdout, Line("no-staged-changes", NoBody))
            /\ UNCHANGED <<outFile, stderr>>
    /\ exitCode' = IF options.failOnError THEN 1 ELSE 0
    /\ pc' = "exited"

\* if (!fullDiff || fullDiff.trim() === '') { ... process.exit(0) }
CIEmptyDiff ==
    /\ IF options.format = "json"
       THEN IF options.output # "null"
            THEN /\ saveToFile(EmptyResult)
                 /\ UNCHANGED stdout
            ELSE /\ stdout' = Append(stdout, Line("report", EmptyResult))
                 /\ UNCHANGED <<outFile, stderr>>
       ELSE /\ stdout' = Append(stdout, Line("no-staged-changes", NoBody))
            /\ UNCHANGED <<outFile, stderr>>
    /\ exitCode' = 0
    /\ pc' = "exited"

\* CIFinish with the rule findings pushed in front of the oracle findings.
CIFinish_RulesFirst(issues) ==
    LET all == RuleFindings(ruleResults) \o issues
    IN /\ allIssues' = all
       /\ IF options.output # "null"
          THEN /\ saveToFile(formattedOutput(all, options))
               /\ stdout' = Append(stdout, Line("report-saved", NoBody))
          ELSE /\ stdout' = Append(stdout,
                                   Line("report", formattedOutput(all, options)))
               /\ UNCHANGED <<outFile, stderr>>
       /\ exitCode' = getExitCode(filteredIssues(all, options), options)
       /\ pc' = "exited"

\* From the end of the dispatch loop to process.exit(exitCode): rules
\* validation, severity filter, formatting, output, exit code.  issues is
\* allIssues as the loop left it.
CIFinish(issues) ==
    LET all == issues \o RuleFindings(ruleResults)
    IN /\ allIssues' = all
       /\ IF options.output # "null"
          THEN /\ saveToFile(formattedOutput(all, options))
               /\ stdout' = Append(stdout, Line("report-saved", NoBody))
          ELSE /\ stdout' = Append(stdout,
                                   Line("report", formattedOutput(all, options)))
               /\ UNCHANGED <<outFile, stderr>>
       /\ exitCode' = getExitCode(filteredIssues(all, options), options)
       /\ pc' = "exited"

\* No formatter function is under call on its own.
FmtIdle ==
    /\ fmtPc = "idle"
    /\ issuesArg = <<>>
    /\ optionsArg = DefaultOptions
    /\ exitStatus = 0
    /\ xmlReport = <<>>
    /\ jsonReports = <<>>
    /\ clock = "t0"

\* parseAIResponse is not under call on its own.
ParseIdle == parsePc = "idle" /\ aiResponse = <<>> /\ parsed = <<>>

PureIdle == FmtIdle /\ ParseIdle

\* The commit command is not run.
CommitIdle == commitPc = "idle" /\ message = <<>> /\ commits = <<>>

\* No global config is saved and no process has asked the oracle.
ConfigIdle == configFile = <<>> /\ initRuns = <<>>
ClientIdle ==
    /\ ai = [client |-> "null", provider |-> "null", apiKey |-> "null",
             model |-> "null", baseUrl |-> "null"]
    /\ chatPc = "idle"

ToolIdle == CommitIdle /\ ConfigIdle /\ ClientIdle

(***************************************************************************)
(* Init: main() has parsed argv and is about to await getStagedDiff().     *)
(***************************************************************************)
Init ==
    /\ command \in {"review", "ci"}
    /\ isSilent \in BOOLEAN
    /\ pc = "getStagedDiff"
    /\ chunks = <<>>
    /\ i = 0
    /\ calls = [k \in ChunkIds |-> "idle"]
    /\ responses = [k \in ChunkIds |-> 0]
    /\ allIssues = <<>>
    /\ stderr = <<>>
    /\ timer = 0
    /\ exitCode = 0
    /\ issueIdx = 0
    /\ strategy = "none"
    /\ options = DefaultOptions
    /\ ruleResults = <<>>
    /\ writable = TRUE
    /\ stdout = <<>>
    /\ outFile = <<>>
    /\ diff = <<>>
    /\ diffChunks = <<>>
    /\ segPc = "idle"
    /\ PureIdle
    /\ ToolIdle

\* Entering the dispatch loop with chunk list cs: the first window is started
\* at once (a non-empty diff has at least one chunk).
EnterLoop(cs) ==
    /\ chunks' = cs
    /\ i' = 0
    /\ calls' = StartBatch(calls, cs, 0)
    /\ pc' = "batch"

(***************************************************************************)
(* getStagedDiff() resolved; n is the number of chunks getDiffChunks makes *)
(* of it, 0 standing for an empty or whitespace-only diff.                 *)
(***************************************************************************)
ReviewStart(n) ==
    /\ command = "review"
    /\ pc = "getStagedDiff"
    /\ IF n = 0
       THEN /\ pc' = "returned"
            /\ UNCHANGED <<chunks, i, calls>>
       ELSE IF n > GIANT_DIFF_CHUNKS /\ ~isSilent
            THEN /\ pc' = "strategy"
                 /\ chunks' = [k \in 1..n |-> k]
                 /\ UNCHANGED <<i, calls>>
            ELSE EnterLoop([k \in 1..n |-> k])
    /\ UNCHANGED <<command, isSilent, responses, allIssues, stderr, timer,
                   exitCode>>
    /\ UNCHANGED <<issueIdx, pureVars, segVars, toolVars, strategy, ciVars>>

\* ChooseStrategy taking 'top' as 'all'.
ChooseStrategy_TopIsAll(answer) ==
    /\ command = "review"
    /\ pc = "strategy"
    /\ strategy' = answer
    /\ IF answer = "skip"
       THEN /\ pc' = "returned"
            /\ UNCHANGED <<chunks, i, calls>>
       ELSE EnterLoop(chunks)
    /\ UNCHANGED <<command, isSilent, responses, allIssues, stderr, timer,
                   exitCode>>
    /\ UNCHANGED <<issueIdx, pureVars, segVars, toolVars, ciVars>>

\* The answer to the "How would you like to proceed?" prompt
\* (part_011 1301-1320).
ChooseStrategy(answer) ==
    /\ command = "review"
    /\ pc = "strategy"
    /\ strategy' = answer
    /\ IF answer = "skip"
       THEN /\ pc' = "returned"
            /\ UNCHANGED <<chunks, i, calls>>
       ELSE IF answer = "top"
            THEN EnterLoop(SubSeq(chunks, 1, Min(GIANT_DIFF_CHUNKS, Len(chunks))))
            ELSE EnterLoop(chunks)
    /\ UNCHANGED <<command, isSilent, responses, allIssues, stderr, timer,
                   exitCode>>
    /\ UNCHANGED <<issueIdx, pureVars, segVars, toolVars, ciVars>>

CIStart(n) ==
    /\ command = "ci"
    /\ pc = "getStagedDiff"
    /\ IF n = 0
       THEN /\ CIEmptyDiff
            /\ UNCHANGED <<chunks, i, calls>>
       ELSE /\ EnterLoop([k \in 1..n |-> k])
            /\ UNCHANGED <<exitCode, stderr, stdout, outFile>>
    /\ UNCHANGED <<command, isSilent, responses, allIssues, timer>>
    /\ UNCHANGED <<issueIdx, pureVars, segVars, toolVars, strategy, options, ruleResults, writable>>

(***************************************************************************)
(* Continuations of `await Promise.all(...)` in the dispatch loop.         *)
(***************************************************************************)
\* The loop condition fails after a window that succeeded: the ci command
\* runs on to process.exit without suspending; the review command goes on to
\* its issue loop.
LoopDone(issues) ==
    IF command = "ci"
    THEN CIFinish(issues)
    ELSE /\ pc' = "loopDone"
         /\ allIssues' = issues
         /\ UNCHANGED <<stderr, exitCode, stdout, outFile>>

\* BatchSucceeded with the findings of the window put in front of the
\* accumulator (unshift for push).
BatchSucceeded_Unshift(resp) ==
    LET issues == BatchIssues(<<>>, i + 1,
                              Min(i + CONCURRENCY_LIMIT, Len(chunks)), resp)
                  \o allIssues
    IN /\ IF i + CONCURRENCY_LIMIT < Len(chunks)
          THEN /\ pc' = "delay"
               /\ timer' = PACING_DELAY_MS
               /\ allIssues' = issues
               /\ UNCHANGED <<stderr, exitCode, stdout, outFile>>
          ELSE /\ timer' = 0
               /\ LoopDone(issues)
       /\ UNCHANGED <<i, chunks>>

\* The try block after the await: parse, accumulate, then pace or leave the
\* loop.
BatchSucceeded(resp) ==
    LET issues == BatchIssues(allIssues, i + 1,
                              Min(i + CONCURRENCY_LIMIT, Len(chunks)), resp)
    IN /\ IF i + CONCURRENCY_LIMIT < Len(chunks)
          THEN /\ pc' = "delay"
               /\ timer' = PACING_DELAY_MS
               /\ allIssues' = issues
               /\ UNCHANGED <<stderr, exitCode, stdout, outFile>>
          ELSE /\ timer' = 0
               /\ LoopDone(issues)
       /\ UNCHANGED <<i, chunks>>

\* ReviewBatchFailed rethrowing only when chunks.length < CONCURRENCY_LIMIT.
ReviewBatchFailed_StrictLess(cl) ==
    IF Len(chunks) < CONCURRENCY_LIMIT
    THEN /\ stderr' = stderr \o <<<<"batch", batchIndex(i)>>, <<"review">>>>
         /\ pc' = "exited"
         /\ exitCode' = 1
         /\ calls' = cl
         /\ UNCHANGED <<i, chunks, allIssues, timer>>
    ELSE /\ stderr' = Append(stderr, <<"batch", batchIndex(i)>>)
         /\ i' = i + CONCURRENCY_LIMIT
         /\ IF i + CONCURRENCY_LIMIT < Len(chunks)
            THEN /\ calls' = StartBatch(cl, chunks, i + CONCURRENCY_LIMIT)
                 /\ pc' = "batch"
            ELSE /\ calls' = cl
                 /\ pc' = "loopDone"
         /\ UNCHANGED <<chunks, allIssues, timer, exitCode>>

\* ReviewBatchFailed that keeps the findings of the calls of the failed
\* window that resolved.
ReviewBatchFailed_KeepResolved(cl) ==
    LET kept == [k \in ChunkIds |->
                    IF cl[k] = "resolved" THEN responses[k] ELSE 0]
        issues == BatchIssues(allIssues, i + 1,
                              Min(i + CONCURRENCY_LIMIT, Len(chunks)), kept)
    IN IF Len(chunks) <= CONCURRENCY_LIMIT
       THEN /\ stderr' = stderr \o <<<<"batch", batchIndex(i)>>, <<"review">>>>
            /\ pc' = "exited"
            /\ exitCode' = 1
            /\ calls' = cl
            /\ allIssues' = issues
            /\ UNCHANGED <<i, chunks, timer>>
       ELSE /\ stderr' = Append(stderr, <<"batch", batchIndex(i)>>)
            /\ i' = i + CONCURRENCY_LIMIT
            /\ IF i + CONCURRENCY_LIMIT < Len(chunks)
               THEN /\ calls' = StartBatch(cl, chunks, i + CONCURRENCY_LIMIT)
                    /\ pc' = "batch"
               ELSE /\ calls' = cl
                    /\ pc' = "loopDone"
            /\ allIssues' = issues
            /\ UNCHANGED <<chunks, timer, exitCode>>

\* The catch block of the review command's loop (part_011 1350-1354) and, when
\* it rethrows, the outer catch (1414-1418).
ReviewBatchFailed(cl) ==
    IF Len(chunks) <= CONCURRENCY_LIMIT
    THEN /\ stderr' = stderr \o <<<<"batch", batchIndex(i)>>, <<"review">>>>
         /\ pc' = "exited"
         /\ exitCode' = 1
         /\ calls' = cl
         /\ UNCHANGED <<i, chunks, allIssues, timer>>
    ELSE /\ stderr' = Append(stderr, <<"batch", batchIndex(i)>>)
         /\ i' = i + CONCURRENCY_LIMIT
         /\ IF i + CONCURRENCY_LIMIT < Len(chunks)
            THEN /\ calls' = StartBatch(cl, chunks, i + CONCURRENCY_LIMIT)
                 /\ pc' = "batch"
            ELSE /\ calls' = cl
                 /\ pc' = "loopDone"
         /\ UNCHANGED <<chunks, allIssues, timer, exitCode>>

\* CIBatchFailed that logs and lets the loop go on to the next window.
CIBatchFailed_Continue(cl) ==
    /\ stderr' = Append(stderr, <<"ci-review">>)
    /\ i' = i + CONCURRENCY_LIMIT
    /\ IF i + CONCURRENCY_LIMIT < Len(chunks)
       THEN /\ calls' = StartBatch(cl, chunks, i + CONCURRENCY_LIMIT)
            /\ pc' = "batch"
       ELSE /\ calls' = cl
            /\ pc' = "loopDone"
    /\ UNCHANGED <<chunks, allIssues, timer, exitCode>>

\* The catch block of the ci command's loop (part_011 974-977).
CIBatchFailed(cl) ==
    /\ stderr' = Append(stderr, <<"ci-review">>)
    /\ pc' = "exited"
    /\ exitCode' = 1
    /\ calls' = cl
    /\ UNCHANGED <<i, chunks, allIssues, timer>>

BatchFailed(cl) ==
    IF command = "review" THEN ReviewBatchFailed(cl) ELSE CIBatchFailed(cl)

\* Whether the loop is suspended on the Promise.all that call k belongs to.
Awaited(k) == pc = "batch" /\ k \in currentBatch(chunks, i)

(***************************************************************************)
(* The oracle settles the reviewCode promise of chunk k.                   *)
(***************************************************************************)
ResolveCall(k, r) ==
    /\ Running
    /\ calls[k] = "pending"
    /\ LET cl == [calls EXCEPT ![k] = "resolved"]
           resp == [responses EXCEPT ![k] = r]
       IN /\ responses' = resp
          /\ calls' = cl
          /\ IF Awaited(k) /\ \A j \in currentBatch(chunks, i) : cl[j] = "resolved"
             THEN BatchSucceeded(resp)
             ELSE UNCHANGED <<pc, i, chunks, allIssues, stderr, timer, exitCode,
                              stdout, outFile>>
    /\ UNCHANGED <<command, isSilent>>
    /\ UNCHANGED <<issueIdx, pureVars, segVars, toolVars, strategy, options, ruleResults, writable>>

RejectCall(k) ==
    /\ Running
    /\ calls[k] = "pending"
    /\ LET cl == [calls EXCEPT ![k] = "rejected"]
       IN IF Awaited(k)
          THEN BatchFailed(cl)
          ELSE /\ calls' = cl
               /\ UNCHANGED <<pc, i, chunks, allIssues, stderr, timer, exitCode>>
    /\ UNCHANGED <<command, isSilent, responses>>
    /\ UNCHANGED <<issueIdx, pureVars, segVars, toolVars, strategy, ciVars>>

\* DelayElapsed that dispatches the same window again.
DelayElapsed_SameWindow ==
    /\ Running
    /\ pc = "delay"
    /\ timer' = 0
    /\ i' = i
    /\ calls' = StartBatch(calls, chunks, i)
    /\ pc' = "batch"
    /\ UNCHANGED <<command, isSilent, chunks, responses, allIssues, stderr,
                   exitCode>>
    /\ UNCHANGED <<issueIdx, pureVars, segVars, toolVars, strategy, ciVars>>

\* setTimeout(resolve, 1500) fires: i += CONCURRENCY_LIMIT and the next window
\* is started.
DelayElapsed ==
    /\ Running
    /\ pc = "delay"
    /\ timer' = 0
    /\ i' = i + CONCURRENCY_LIMIT
    /\ calls' = StartBatch(calls, chunks, i + CONCURRENCY_LIMIT)
    /\ pc' = "batch"
    /\ UNCHANGED <<command, isSilent, chunks, responses, allIssues, stderr,
                   exitCode>>
    /\ UNCHANGED <<issueIdx, pureVars, segVars, toolVars, strategy, ciVars>>

Next ==
    \/ \E n \in 0..MaxChunks : ReviewStart(n)
    \/ \E s \in {"all", "top", "skip"} : ChooseStrategy(s)
    \/ \E n \in 0..MaxChunks : CIStart(n)
    \/ \E k \in ChunkIds, r \in 0..MaxFindings : ResolveCall(k, r)
    \/ \E k \in ChunkIds : RejectCall(k)
    \/ DelayElapsed

Spec == Init /\ [][Next]_vars

(***************************************************************************)
(* The same commands with every combination of ci options, rule results    *)
(* and output-file writability, over diffs of at most MaxCIChunks chunks   *)
(* (one window, so neither the strategy prompt nor the pacing delay        *)
(* occurs).                                                                *)
(***************************************************************************)
\* { file, severity, message, type } of a violation (lib/rules-engine.js).
Violation(file, sev, msg, type) ==
    [file |-> file, severity |-> sev, message |-> msg, type |-> type]

SecurityError ==
    Violation(<<"a">>, "error", <<"k", "e", "y">>,
              <<"s", "e", "c", "u", "r", "i", "t", "y">>)
ComplexityWarn ==
    Violation(<<"a">>, "warn", <<"l", "o", "n", "g">>,
              <<"c", "o", "m", "p", "l", "e", "x", "i", "t", "y">>)
StandardInfo ==
    Violation(<<"b">>, "info", <<"d", "o", "c">>,
              <<"s", "t", "a", "n", "d", "a", "r", "d">>)

\* What the validation loop meets, file by file: read says whether the file
\* has a path in the diff header, exists and is read without an exception.
\* <<>> also stands for a project without team rules.
RuleResultInputs ==
    { <<>>,
      <<[read |-> TRUE, violations |-> <<SecurityError>>]>>,
      <<[read |-> TRUE, violations |-> <<ComplexityWarn, StandardInfo>>]>>,
      <<[read |-> FALSE, violations |-> <<SecurityError>>],
        [read |-> TRUE, violations |-> <<StandardInfo, ComplexityWarn>>]>> }

OptionInputs ==
    [format : {"json", "xml", "github", "text"},
     output : {"null", "report"},
     failOnError : BOOLEAN,
     failOnWarn : BOOLEAN,
     severity : {"null", "error", "warn", "info"}]

InitCI ==
    /\ command \in {"review", "ci"}
    /\ isSilent \in BOOLEAN
    /\ pc = "getStagedDiff"
    /\ chunks = <<>>
    /\ i = 0
    /\ calls = [k \in ChunkIds |-> "idle"]
    /\ responses = [k \in ChunkIds |-> 0]
    /\ allIssues = <<>>
    /\ stderr = <<>>
    /\ timer = 0
    /\ exitCode = 0
    /\ issueIdx = 0
    /\ strategy = "none"
    /\ options \in OptionInputs
    /\ ruleResults \in RuleResultInputs
    /\ writable \in BOOLEAN
    /\ stdout = <<>>
    /\ outFile = <<>>
    /\ diff = <<>>
    /\ diffChunks = <<>>
    /\ segPc = "idle"
    /\ PureIdle
    /\ ToolIdle

NextCI ==
    \/ \E n \in 0..MaxCIChunks : ReviewStart(n)
    \/ \E n \in 0..MaxCIChunks : CIStart(n)
    \/ \E k \in ChunkIds, r \in 0..MaxFindings : ResolveCall(k, r)
    \/ \E k \in ChunkIds : RejectCall(k)

SpecCI == InitCI /\ [][NextCI]_vars

(***************************************************************************)
(* Vocabulary of the claims about the dispatch loop.                       *)
(***************************************************************************)
Settled(k) == calls[k] \in {"resolved", "rejected"}
Started(k) == calls[k] # "idle"
SomeRejected == \E k \in ChunkIds : calls[k] = "rejected"
Logged(entry) == \E p \in 1..Len(stderr) : stderr[p] = entry
WindowChunks(w) == {k \in 1..Len(chunks) : BatchOf(k) = w}
WindowSucceeded(w) == \A k \in WindowChunks(w) : calls[k] = "resolved"
WindowFailed(w) == \E k \in WindowChunks(w) : calls[k] = "rejected"
\* The review run was ended by the outer catch of main.
ReviewAborted == pc = "exited" /\ exitCode = 1 /\ Logged(<<"review">>)

\* C1: in the review command's dispatch loop the number of reviewCode calls
\* started and not yet settled never exceeds CONCURRENCY_LIMIT (3).
C1_InFlightAtMostLimit ==
    command = "review" => Cardinality(InFlight) <= CONCURRENCY_LIMIT

\* C2: no reviewCode call of window k+1 is started before every call of
\* window k has settled, also when a call of window k rejects while others of
\* that window are pending.
C2_WindowsStrictlySequential ==
    \A k \in 1..Len(chunks) :
        (Started(k) /\ BatchOf(k) > 1)
            => \A j \in WindowChunks(BatchOf(k) - 1) : Settled(j)

\* C3: in the review command a rejected oracle call aborts the run (outer
\* catch, exit 1) if and only if chunks.length <= 3; with more than one window
\* the failure is logged and every later window is still dispatched.
C3_AbortIffSingleWindow ==
    command = "review" =>
        /\ (SomeRejected /\ Len(chunks) <= CONCURRENCY_LIMIT) => ReviewAborted
        /\ ReviewAborted => (SomeRejected /\ Len(chunks) <= CONCURRENCY_LIMIT)
        /\ Len(chunks) > CONCURRENCY_LIMIT =>
              /\ \A w \in 1..totalBatches(chunks) :
                    WindowFailed(w) =>
                        /\ Logged(<<"batch", w>>)
                        /\ \A k \in WindowChunks(w + 1) : Started(k)
              /\ pc = "loopDone" => \A k \in 1..Len(chunks) : Started(k)

\* C3 witness: a review run of more than one window left the loop after a
\* call of its first window was rejected and its last chunk was reviewed.
C3_Witness ==
    /\ command = "review"
    /\ Len(chunks) > CONCURRENCY_LIMIT
    /\ pc = "loopDone"
    /\ calls[1] = "rejected"
    /\ calls[Len(chunks)] = "resolved"
    /\ Logged(<<"batch", 1>>)

\* C4: a review run with more than one window does not throw; when the loop
\* is left every finding of a window whose calls all succeeded is in
\* allIssues, findings of different windows stand in window order, and with
\* two windows, window 1 all failed and window 2 succeeded, allIssues is
\* exactly window 2's findings.
C4_PartialFailureTolerance ==
    (command = "review" /\ Len(chunks) > CONCURRENCY_LIMIT) =>
        /\ ~ReviewAborted
        /\ pc # "exited"
        /\ \A p, q \in 1..Len(allIssues) :
              p < q => BatchOf(allIssues[p].chunk) <= BatchOf(allIssues[q].chunk)
        /\ pc = "loopDone" =>
              /\ \A w \in 1..totalBatches(chunks) :
                    WindowSucceeded(w) =>
                        \A k \in WindowChunks(w) : \A j \in 1..responses[k] :
                            \E p \in 1..Len(allIssues) :
                                allIssues[p] = parseAIResponse(k, responses[k])[j]
              /\ ( /\ totalBatches(chunks) = 2
                   /\ \A k \in WindowChunks(1) : calls[k] = "rejected"
                   /\ WindowSucceeded(2) )
                 => allIssues = BatchIssues(<<>>, CONCURRENCY_LIMIT + 1,
                                            Len(chunks), responses)

\* C4 witness: two windows, every call of window 1 rejected, window 2
\* succeeded with findings, the loop is left.
C4_Witness ==
    /\ command = "review"
    /\ totalBatches(chunks) = 2
    /\ pc = "loopDone"
    /\ \A k \in WindowChunks(1) : calls[k] = "rejected"
    /\ WindowSucceeded(2)
    /\ allIssues # <<>>

C6_PacingBetweenWindows ==
    [][ /\ \A k \in ChunkIds :
              (calls[k] = "idle" /\ calls'[k] = "pending" /\ BatchOf(k) > 1)
                  => (pc = "delay" /\ timer = PACING_DELAY_MS)
        /\ pc' = "delay" => i' + CONCURRENCY_LIMIT < Len(chunks') ]_vars

(***************************************************************************)
(* The diff segmenter, getDiffChunks (src/unnamed/part_001).               *)
(*                                                                         *)
(* A text is a sequence of symbols: "M" is the 11 characters 'diff --git ',*)
(* "N" a line feed, "a" one ordinary character and "B" a run of BlockLen   *)
(* ordinary characters without a line feed.  No ordinary character occurs  *)
(* in the marker, so the marker occurs in a text exactly where "M" stands. *)
(***************************************************************************)
Symbols == {"M", "N", "a", "B"}

\* Two marker-headed patches of one block and a line feed fill a chunk exactly.
BlockLen == (MAX_DIFF_SIZE \div 2) - MarkerLen - 1

SymbolLen(t) == IF t = "M" THEN MarkerLen ELSE IF t = "B" THEN BlockLen ELSE 1

RECURSIVE StrLen(_)
\* String.prototype.length
StrLen(s) == IF s = <<>> THEN 0 ELSE SymbolLen(Head(s)) + StrLen(Tail(s))

\* /^diff --git /m matches at position idx of s: the marker stands there, at
\* the start of the text or right after a line feed.
MarkerAt(s, idx) == s[idx] = "M" /\ (idx = 1 \/ s[idx - 1] = "N")

RECURSIVE SplitFrom(_, _, _, _)
\* diff.split(/^diff --git /m): the texts between the matches, the empty
\* ones (before a match at the start, after a match at the end) included.
SplitFrom(s, idx, piece, acc) ==
    IF idx > Len(s) THEN Append(acc, piece)
    ELSE IF MarkerAt(s, idx)
         THEN SplitFrom(s, idx + 1, <<>>, Append(acc, piece))
         ELSE SplitFrom(s, idx + 1, Append(piece, s[idx]), acc)

Split(s) == SplitFrom(s, 1, <<>>, <<>>)

\* .filter(Boolean): the empty strings are dropped.
FilterBoolean(ps) == SelectSeq(ps, LAMBDA x : x # <<>>)

\* const fullFileDiff = 'diff --git ' + fileDiff
FullFileDiff(fileDiff) == <<"M">> \o fileDiff

\* ShouldSeal comparing only the chunk built so far with the limit.
ShouldSeal_IgnoreNext(currentChunk, fullFileDiff) ==
    StrLen(currentChunk) > MAX_DIFF_SIZE /\ StrLen(currentChunk) > 0

\* ShouldSeal that already seals when the next file-patch fills the chunk
\* exactly.
ShouldSeal_AtLimit(currentChunk, fullFileDiff) ==
    /\ StrLen(currentChunk) + StrLen(fullFileDiff) >= MAX_DIFF_SIZE
    /\ StrLen(currentChunk) > 0

\* currentChunk.length + fullFileDiff.length > MAX_DIFF_SIZE && currentChunk.length > 0
ShouldSeal(currentChunk, fullFileDiff) ==
    /\ StrLen(currentChunk) + StrLen(fullFileDiff) > MAX_DIFF_SIZE
    /\ StrLen(currentChunk) > 0

RECURSIVE ChunkLoop(_, _, _, _)
\* for (const fileDiff of files) { ... }
ChunkLoop(files, idx, out, currentChunk) ==
    IF idx > Len(files) THEN <<out, currentChunk>>
    ELSE LET fullFileDiff == FullFileDiff(files[idx])
         IN IF ShouldSeal(currentChunk, fullFileDiff)
            THEN ChunkLoop(files, idx + 1, Append(out, currentChunk), fullFileDiff)
            ELSE ChunkLoop(files, idx + 1, out, currentChunk \o fullFileDiff)

\* PushLast that forgets the chunk still being built.
PushLast_Forget(out, currentChunk) == out

\* if (currentChunk) chunks.push(currentChunk)
PushLast(out, currentChunk) ==
    IF currentChunk # <<>> THEN Append(out, currentChunk) ELSE out

\* Files that leaves out every file-patch longer than the limit.
Files_SkipOversized(d) ==
    SelectSeq(FilterBoolean(Split(d)),
              LAMBDA f : StrLen(FullFileDiff(f)) <= MAX_DIFF_SIZE)

\* const files = diff.split(/^diff --git /m).filter(Boolean)
Files(d) == FilterBoolean(Split(d))

getDiffChunks(d) ==
    IF d = <<>> THEN <<>>
    ELSE LET r == ChunkLoop(Files(d), 1, <<>>, <<>>)
         IN PushLast(r[1], r[2])

(***************************************************************************)
(* Arguments of getDiffChunks: every text of at most MaxTokens symbols,    *)
(* and every text made of an optional preamble and at most MaxFiles        *)
(* marker-headed patches with bodies from PatchBodies.                     *)
(***************************************************************************)
ShortTexts == UNION {[1..n -> Symbols] : n \in 0..MaxTokens}

PatchBodies ==
    { <<"a", "N">>,            \* a small patch
      <<"B", "N">>,            \* half the limit, marker included
      <<"B", "B", "B", "N">>,  \* longer than the limit
      <<"a">>,                 \* no line feed at its end
      <<"a", "M", "N">>,       \* the marker text inside a line
      <<>> }                   \* nothing after the marker

Preambles == { <<>>, <<"a", "N">>, <<"N">> }

RECURSIVE PatchTexts(_)
\* The concatenations of exactly n marker-headed patches.
PatchTexts(n) ==
    IF n = 0 THEN {<<>>}
    ELSE {t \o <<"M">> \o b : t \in PatchTexts(n - 1), b \in PatchBodies}

AssembledTexts ==
    {pre \o t : pre \in Preambles, t \in UNION {PatchTexts(n) : n \in 0..MaxFiles}}

DiffInputs == ShortTexts \cup AssembledTexts

\* The dispatcher's variables while only the segmenter is exercised.
DispatchIdle ==
    /\ command = "review"
    /\ isSilent = FALSE
    /\ pc = "getStagedDiff"
    /\ chunks = <<>>
    /\ i = 0
    /\ calls = [k \in ChunkIds |-> "idle"]
    /\ responses = [k \in ChunkIds |-> 0]
    /\ allIssues = <<>>
    /\ stderr = <<>>
    /\ timer = 0
    /\ exitCode = 0
    /\ issueIdx = 0
    /\ strategy = "none"
    /\ options = DefaultOptions
    /\ ruleResults = <<>>
    /\ writable = TRUE
    /\ stdout = <<>>
    /\ outFile = <<>>

InitChunks ==
    /\ DispatchIdle
    /\ PureIdle
    /\ ToolIdle
    /\ diff \in DiffInputs
    /\ diffChunks = <<>>
    /\ segPc = "called"

\* The call getDiffChunks(diff) returns.
GetDiffChunks ==
    /\ segPc = "called"
    /\ diffChunks' = getDiffChunks(diff)
    /\ segPc' = "returned"
    /\ UNCHANGED <<diff, dispatchVars, strategy, ciVars, pureVars, toolVars>>

NextChunks == GetDiffChunks

SpecChunks == InitChunks /\ [][NextChunks]_vars

(***************************************************************************)
(* Vocabulary of the claims about the segmenter.                           *)
(***************************************************************************)
\* The file-patches of a text: each runs from a marker at the start of a line
\* to the next such marker (or the end); text before the first marker belongs
\* to no file-patch.
FilePatches(s) ==
    LET ps == Split(s)
    IN [j \in 1..(Len(ps) - 1) |-> <<"M">> \o ps[j + 1]]

\* The file-patches of a list of chunks, chunk by chunk.
ChunkPatches(cs) == Concat([c \in 1..Len(cs) |-> FilePatches(cs[c])])

HasMarker(s) == \E idx \in 1..Len(s) : MarkerAt(s, idx)

\* s is a diff of the data model: zero or more file-patches, each a marker
\* followed by a non-empty rest, and nothing before the first.
IsDiff(s) ==
    \/ s = <<>>
    \/ /\ MarkerAt(s, 1)
       /\ \A j \in 1..Len(FilePatches(s)) : FilePatches(s)[j] # <<"M">>

Oversized(p) == StrLen(p) > MAX_DIFF_SIZE

\* C7: for every diff D the file-patches of the chunks of getDiffChunks(D),
\* read chunk by chunk, are exactly the file-patches of D in their order: none
\* dropped, duplicated, reordered or split across two chunks.
C7_SegmentationComplete ==
    (segPc = "returned" /\ IsDiff(diff)) =>
        /\ ChunkPatches(diffChunks) = FilePatches(diff)
        /\ \A c \in 1..Len(diffChunks) :
              /\ MarkerAt(diffChunks[c], 1)
              /\ Concat(FilePatches(diffChunks[c])) = diffChunks[c]

\* C7 witness: a diff of three file-patches was cut into more than one chunk.
C7_Witness ==
    /\ segPc = "returned"
    /\ IsDiff(diff)
    /\ Len(FilePatches(diff)) = 3
    /\ Len(diffChunks) = 2
    /\ ChunkPatches(diffChunks) = FilePatches(diff)

\* C8: every chunk returned by getDiffChunks that holds more than one
\* file-patch has length <= MAX_DIFF_SIZE.
C8_SegmentSizeBound ==
    segPc = "returned" =>
        \A c \in 1..Len(diffChunks) :
            Len(FilePatches(diffChunks[c])) > 1
                => StrLen(diffChunks[c]) <= MAX_DIFF_SIZE

\* C8 witness: a chunk of two file-patches that is exactly MAX_DIFF_SIZE long,
\* followed by another chunk.
C8_Witness ==
    /\ segPc = "returned"
    /\ Len(diffChunks) = 2
    /\ Len(FilePatches(diffChunks[1])) = 2
    /\ StrLen(diffChunks[1]) = MAX_DIFF_SIZE

\* C9: a file-patch longer than MAX_DIFF_SIZE appears whole in exactly one
\* chunk and that chunk holds no other file-patch, wherever the patch stands
\* in the diff.
C9_OversizePassthrough ==
    segPc = "returned" =>
        /\ \A c \in 1..Len(diffChunks) :
              \A j \in 1..Len(FilePatches(diffChunks[c])) :
                  Oversized(FilePatches(diffChunks[c])[j])
                      => diffChunks[c] = FilePatches(diffChunks[c])[j]
        /\ IsDiff(diff) =>
              SelectSeq(ChunkPatches(diffChunks), Oversized)
                  = SelectSeq(FilePatches(diff), Oversized)

\* C9 witness: the oversized file-patch stands in the middle of the diff and
\* is the second of three chunks.
C9_Witness ==
    /\ segPc = "returned"
    /\ IsDiff(diff)
    /\ Len(FilePatches(diff)) = 3
    /\ Oversized(FilePatches(diff)[2])
    /\ Len(diffChunks) = 3
    /\ diffChunks[2] = FilePatches(diff)[2]

\* C10: for every text D, also one with text before its first marker or with
\* no marker, the chunks of getDiffChunks(D) joined in order equal D, and a
\* (non-empty) D without a marker yields exactly one chunk.
C10_ConcatEqualsDiff ==
    segPc = "returned" =>
        /\ Concat(diffChunks) = diff
        /\ (diff # <<>> /\ ~HasMarker(diff)) => Len(diffChunks) = 1

(***************************************************************************)
(* Claims about the strategy prompt, the aggregation and the reports.      *)
(***************************************************************************)
\* The strategy prompt is being shown or has been answered.
Prompted == pc = "strategy" \/ strategy # "none"
\* The review run has chosen its chunk list and left the dispatch loop or
\* the process.
LoopLeft == pc = "loopDone" \/ pc = "exited"
NoCallStarted == \A k \in ChunkIds : calls[k] = "idle"

\* C15: in the review command the strategy prompt is shown iff there are more
\* than 5 chunks and the run is not silent; 'all' dispatches every chunk,
\* 'top' exactly the first 5 in order, 'skip' issues no oracle call and ends
\* with no finding and exit 0; without a prompt every chunk is dispatched.
C15_StrategyPrompt ==
    (command = "review" /\ pc # "getStagedDiff" /\ chunks # <<>>) =>
        /\ chunks = [k \in 1..Len(chunks) |-> k]
        /\ Prompted => ~isSilent
        /\ (Prompted /\ strategy # "top") => Len(chunks) > GIANT_DIFF_CHUNKS
        /\ ~Prompted => (isSilent \/ Len(chunks) <= GIANT_DIFF_CHUNKS)
        /\ strategy = "top" => Len(chunks) = GIANT_DIFF_CHUNKS
        /\ \A k \in ChunkIds : Started(k) => k <= Len(chunks)
        /\ \A k \in ChunkIds : Started(k) => \A j \in 1..k : Started(j)
        /\ (LoopLeft /\ strategy # "skip") =>
               \A k \in 1..Len(chunks) : Started(k)
        /\ strategy = "skip" =>
               /\ pc = "returned"
               /\ NoCallStarted
               /\ allIssues = <<>>
               /\ exitCode = 0
        /\ ~Prompted => pc # "returned"

\* C15 witness: 'top' was chosen for a diff of more than 5 chunks and the loop
\* has been left after dispatching the first 5 chunks.
C15_Witness ==
    /\ command = "review"
    /\ strategy = "top"
    /\ pc = "loopDone"
    /\ \A k \in 1..GIANT_DIFF_CHUNKS : Started(k)
    /\ ~Started(GIANT_DIFF_CHUNKS + 1)

\* The ci run went through the dispatch loop without an oracle failure and
\* ended in process.exit(exitCode).
CICompleted ==
    command = "ci" /\ pc = "exited" /\ chunks # <<>> /\ ~SomeRejected
\* The findings parsed from the oracle's replies, in dispatch order.
OracleFindings == BatchIssues(<<>>, 1, Len(chunks), responses)

\* C16: in the ci command the aggregated findings are all oracle findings
\* followed by all rule violations; each violation maps to exactly one
\* finding with the same file, severity and message and rule = its type;
\* nothing is dropped, merged or deduplicated.
C16_OracleThenViolations ==
    CICompleted =>
        LET vs == Violations(ruleResults)
            n == Len(OracleFindings)
        IN /\ Len(allIssues) = n + Len(vs)
           /\ SubSeq(allIssues, 1, n) = OracleFindings
           /\ \A j \in 1..Len(vs) :
                 /\ allIssues[n + j].file = vs[j].file
                 /\ allIssues[n + j].severity = vs[j].severity
                 /\ allIssues[n + j].issue = vs[j].message
                 /\ allIssues[n + j].rule = vs[j].type

\* C16 witness: a completed ci run with an oracle finding and two violations.
C16_Witness ==
    /\ CICompleted
    /\ Len(OracleFindings) >= 1
    /\ Len(Violations(ruleResults)) = 2
    /\ Len(allIssues) >= 3

\* getStagedDiff() resolved with an empty or whitespace-only diff.
EmptyDiffSeen == pc # "getStagedDiff" /\ chunks = <<>>

\* C18: on an empty or whitespace-only staged diff the review and the ci
\* command issue no oracle call and end with exit status 0, whatever
\* --fail-on-error, --fail-on-warn and --severity are.
C18_EmptyDiffExitsZero ==
    EmptyDiffSeen =>
        /\ ~Running
        /\ exitCode = 0
        /\ NoCallStarted
        /\ allIssues = <<>>

\* C18 witness: a ci run on an empty diff with both fail flags and the error
\* filter set has ended.
C18_Witness ==
    /\ command = "ci"
    /\ EmptyDiffSeen
    /\ pc = "exited"
    /\ options.failOnError
    /\ options.failOnWarn
    /\ options.severity = "error"

\* A ci run that was given an output path ended without an oracle failure,
\* the path being writable.
CIEndedWithOutputPath ==
    /\ command = "ci"
    /\ pc = "exited"
    /\ ~SomeRejected
    /\ options.output # "null"
    /\ writable

\* C19: every ci run given an output path that ends without an oracle
\* failure leaves the output file holding the full rendering of the run's
\* result in the selected encoding, for every diff including an empty one.
C19_OutputFileHoldsReport ==
    CIEndedWithOutputPath =>
        /\ outFile # <<>>
        /\ outFile[1].kind = options.format
        /\ chunks # <<>> => outFile = <<formattedOutput(allIssues, options)>>

\* A ci run that was given an output path which cannot be written has ended
\* without an oracle failure.
CIEndedWriteFailed ==
    /\ command = "ci"
    /\ pc = "exited"
    /\ ~SomeRejected
    /\ chunks # <<>>
    /\ options.output # "null"
    /\ ~writable
\* The formatted report of the run was printed to standard output.
ReportPrinted ==
    \E p \in 1..Len(stdout) :
        /\ stdout[p].tag = "report"
        /\ stdout[p].body = formattedOutput(allIssues, options)

\* C20: when writing the report file fails during a ci run, the failure is
\* reported, the formatted report is still printed to standard output, and
\* the exit status is the one the exit-code policy computes.
C20_WriteFailureFallsBackToStdout ==
    CIEndedWriteFailed =>
        /\ Logged(<<"saveToFile">>)
        /\ ReportPrinted
        /\ exitCode = getExitCode(filteredIssues(allIssues, options), options)

\* The summary of a rendered report is a severity tally.
TallyHolds(report) ==
    report.kind \in {"json", "text"} =>
        report.summary.totalIssues =
            report.summary.errors + report.summary.warnings + report.summary.info

\* C13: in every report the ci command renders (structured and plain
\* encodings) summary.totalIssues = errors + warnings + info, for any mix of
\* oracle findings and rule violations.
C13_SummaryIsSeverityTally ==
    command = "ci" =>
        /\ \A p \in 1..Len(stdout) : TallyHolds(stdout[p].body)
        /\ \A p \in 1..Len(outFile) : TallyHolds(outFile[p])

(***************************************************************************)
(* The formatter's functions called on their own (src/unnamed/part_004):   *)
(* getExitCode on every findings list of at most MaxIssues findings with   *)
(* every option combination, formatXML on every single finding whose       *)
(* strings are made of the five XML special characters and a letter.       *)
(***************************************************************************)
Severities == {"error", "warn", "warning", "info", "undefined"}

\* Findings that differ in severity only.
SeverityFindings ==
    {Finding(0, 0, <<"f">>, sev, <<"m">>, <<"s">>, <<>>) : sev \in Severities}

IssueLists == UNION {[1..n -> SeverityFindings] : n \in 0..MaxIssues}

PolicyInputs ==
    [format : {"text"}, output : {"null"}, failOnError : BOOLEAN,
     failOnWarn : BOOLEAN, severity : {"null", "error", "warn", "info"}]

XmlChars == {"&", "<", ">", "\"", "'", "a"}

\* The strings over XmlChars of at most n characters.
Texts(n) == UNION {[1..m -> XmlChars] : m \in 0..n}

XmlFindings ==
    {Finding(0, 0, file, sev, issue, sugg, rule) :
        file \in Texts(1), sev \in {"error", "warn", "info"},
        issue \in Texts(MaxText), sugg \in Texts(1), rule \in Texts(1)}

SegIdle == diff = <<>> /\ diffChunks = <<>> /\ segPc = "idle"

InitFormat ==
    /\ DispatchIdle
    /\ ToolIdle
    /\ SegIdle
    /\ ParseIdle
    /\ exitStatus = 0
    /\ xmlReport = <<>>
    /\ jsonReports = <<>>
    /\ clock = "t0"
    /\ \/ /\ fmtPc = "getExitCode"
          /\ issuesArg \in IssueLists
          /\ optionsArg \in PolicyInputs
       \/ /\ fmtPc = "formatJSON"
          /\ issuesArg \in IssueLists
          /\ optionsArg = DefaultOptions
       \/ /\ fmtPc = "formatXML"
          /\ issuesArg \in {<<f>> : f \in XmlFindings}
          /\ optionsArg = DefaultOptions

\* The call getExitCode(issuesArg, optionsArg) returns.
GetExitCode ==
    /\ fmtPc = "getExitCode"
    /\ exitStatus' = getExitCode(issuesArg, optionsArg)
    /\ fmtPc' = "exitCodeReturned"
    /\ UNCHANGED <<issuesArg, optionsArg, xmlReport, jsonReports, clock>>
    /\ UNCHANGED <<dispatchVars, segVars, toolVars, strategy, ciVars, parseVars>>

\* The call formatXML(issuesArg, metadata) returns.
FormatXML ==
    /\ fmtPc = "formatXML"
    /\ xmlReport' = <<formatXML(issuesArg, Metadata)>>
    /\ fmtPc' = "xmlReturned"
    /\ UNCHANGED <<issuesArg, optionsArg, exitStatus, jsonReports, clock>>
    /\ UNCHANGED <<dispatchVars, segVars, toolVars, strategy, ciVars, parseVars>>

\* A call formatJSON(issuesArg, metadata) returns; the same arguments are
\* formatted twice, the clock standing still or moving on in between.
FormatJSON ==
    /\ fmtPc = "formatJSON"
    /\ jsonReports' = Append(jsonReports, formatJSON(issuesArg, Metadata, clock))
    /\ clock' \in {clock, "t1"}
    /\ fmtPc' = IF jsonReports = <<>> THEN "formatJSON" ELSE "jsonReturned"
    /\ UNCHANGED <<issuesArg, optionsArg, exitStatus, xmlReport>>
    /\ UNCHANGED <<dispatchVars, segVars, toolVars, strategy, ciVars, parseVars>>

NextFormat == GetExitCode \/ FormatXML \/ FormatJSON

SpecFormat == InitFormat /\ [][NextFormat]_vars

\* An error finding, a warning finding exists in the list.
AnyError(issues) == \E p \in 1..Len(issues) : issues[p].severity = "error"
AnyWarning(issues) ==
    \E p \in 1..Len(issues) : issues[p].severity \in {"warn", "warning"}

\* C11: getExitCode returns 1 exactly when (severity = 'error' and an error
\* finding exists) or (severity = 'warn' and a warning finding exists) or
\* (failOnError and an error finding exists) or (failOnWarn and a warning or
\* error finding exists), and 0 otherwise; with no flag and no filter it
\* returns 0 for every findings list.
C11_ExitCodePolicy ==
    fmtPc = "exitCodeReturned" =>
        /\ exitStatus \in {0, 1}
        /\ exitStatus = 1 <=>
              \/ optionsArg.severity = "error" /\ AnyError(issuesArg)
              \/ optionsArg.severity = "warn" /\ AnyWarning(issuesArg)
              \/ optionsArg.failOnError /\ AnyError(issuesArg)
              \/ optionsArg.failOnWarn
                    /\ (AnyWarning(issuesArg) \/ AnyError(issuesArg))
        /\ ( /\ ~optionsArg.failOnError
             /\ ~optionsArg.failOnWarn
             /\ optionsArg.severity = "null" ) => exitStatus = 0

\* C11 witness: --fail-on-warn alone, a list with an error and no warning,
\* and getExitCode returned 1.
C11_Witness ==
    /\ fmtPc = "exitCodeReturned"
    /\ optionsArg.failOnWarn
    /\ ~optionsArg.failOnError
    /\ optionsArg.severity = "null"
    /\ AnyError(issuesArg)
    /\ ~AnyWarning(issuesArg)
    /\ exitStatus = 1

\* The XML entity of a character.
XmlEntity(ch) ==
    IF ch = "&" THEN <<"&", "a", "m", "p", ";">>
    ELSE IF ch = "<" THEN <<"&", "l", "t", ";">>
    ELSE IF ch = ">" THEN <<"&", "g", "t", ";">>
    ELSE IF ch = "\"" THEN <<"&", "q", "u", "o", "t", ";">>
    ELSE IF ch = "'" THEN <<"&", "a", "p", "o", "s", ";">>
    ELSE <<ch>>

\* A string with each of the five special characters replaced by its entity.
XmlEscaped(str) == Concat([p \in 1..Len(str) |-> XmlEntity(str[p])])

\* C17: in the output of formatXML every occurrence of & < > " ' that comes
\* from a finding's file, message, rule/type or suggestion is replaced by its
\* XML entity, in attribute values and in element text.
C17_XmlSpecialsEscaped ==
    fmtPc = "xmlReturned" =>
        LET f == issuesArg[1]
            tc == xmlReport[1].testcases[1]
        IN /\ tc.name = XmlEscaped(OrElse(f.file, <<"unknown">>))
           /\ tc.element \in {"failure", "skipped"} =>
                 tc.message = XmlEscaped(f.issue)
           /\ tc.element = "failure" =>
                 /\ f.rule # <<>> => tc.type = XmlEscaped(f.rule)
                 /\ \A p \in 1..Len(tc.text) :
                       tc.text[p] \in {XmlEscaped(OrElse(f.file, <<"unknown">>)),
                                       XmlEscaped(f.issue),
                                       XmlEscaped(f.suggestion)}

(***************************************************************************)
(* The finding parser, parseAIResponse (src/unnamed/part_003), on texts.   *)
(*                                                                         *)
(* A reply is a sequence of tokens: "F" is a match of /File: /i, "I" of    *)
(* /Issue: /i, "S" of /Suggestion: /i, "N" a line feed, "_" a space and    *)
(* "x" one other character.  No marker overlaps another or an ordinary     *)
(* character.                                                              *)
(***************************************************************************)
ResponseTokens == {"F", "I", "S", "N", "_", "x"}

IsBlank(t) == t = "N" \/ t = "_"

RECURSIVE TrimStart(_)
TrimStart(str) ==
    IF str = <<>> \/ ~IsBlank(Head(str)) THEN str ELSE TrimStart(Tail(str))

RECURSIVE TrimEnd(_)
TrimEnd(str) ==
    IF str = <<>> \/ ~IsBlank(str[Len(str)]) THEN str
    ELSE TrimEnd(SubSeq(str, 1, Len(str) - 1))

\* String.prototype.trim
Trim(str) == TrimEnd(TrimStart(str))

RECURSIVE SplitOnFrom(_, _, _)
SplitOnFrom(str, tok, piece) ==
    IF str = <<>> THEN <<piece>>
    ELSE IF Head(str) = tok
         THEN <<piece>> \o SplitOnFrom(Tail(str), tok, <<>>)
         ELSE SplitOnFrom(Tail(str), tok, Append(piece, Head(str)))

\* str.split(separator) for a separator that is one token.
SplitOn(str, tok) == SplitOnFrom(str, tok, <<>>)

RECURSIVE UpToLineEnd(_)
\* What (.*) captures: the characters before the next line feed.
UpToLineEnd(str) ==
    IF str = <<>> \/ Head(str) = "N" THEN <<>>
    ELSE <<Head(str)>> \o UpToLineEnd(Tail(str))

\* block.match(/<marker>(.*)/i) succeeds.
Matches(block, marker) == \E p \in 1..Len(block) : block[p] = marker

\* match[1] of the first match of the marker in the block.
Capture(block, marker) ==
    LET p == CHOOSE q \in 1..Len(block) :
                 block[q] = marker /\ \A r \in 1..(q - 1) : block[r] # marker
    IN UpToLineEnd(SubSeq(block, p + 1, Len(block)))

\* lines[0]?.trim()
FileOf(block) == Trim(SplitOn(block, "N")[1])

\* Blocks pushing a finding whenever the issue marker is matched.
BlockIssues_NoSuggestionTest(block) ==
    IF FileOf(block) # <<>> /\ Matches(block, "I")
    THEN <<Finding(0, 0, FileOf(block), "undefined",
                   Trim(Capture(block, "I")),
                   IF Matches(block, "S") THEN Trim(Capture(block, "S")) ELSE <<>>,
                   <<>>)>>
    ELSE <<>>

\* The body of the for loop: the finding of one block, if any.
BlockIssues(block) ==
    IF FileOf(block) # <<>> /\ Matches(block, "I") /\ Matches(block, "S")
    THEN <<Finding(0, 0, FileOf(block), "undefined",
                   Trim(Capture(block, "I")), Trim(Capture(block, "S")), <<>>)>>
    ELSE <<>>

\* parseAIResponse(response) on a text.
parseAIResponseText(response) ==
    LET blocks == SelectSeq(SplitOn(response, "F"), LAMBDA b : Trim(b) # <<>>)
    IN Concat([j \in 1..Len(blocks) |-> BlockIssues(blocks[j])])

\* Replies: every text of at most MaxResponse tokens, and every text made of
\* an optional preamble and at most MaxBlocks marker-headed blocks.
ShortResponses == UNION {[1..n -> ResponseTokens] : n \in 0..MaxResponse}

WellFormedBody == <<"x", "N", "I", "x", "_", "x", "N", "S", "x", "N">>
NoSuggestionBody == <<"x", "N", "I", "x", "N">>
NoIssueBody == <<"x", "N", "S", "x", "N">>
NoFileBody == <<"N", "I", "x", "N", "S", "x", "N">>
BlockBodies == {WellFormedBody, NoSuggestionBody, NoIssueBody, NoFileBody}

ResponsePreambles == {<<>>, <<"x", "_", "x", "N", "N">>}

BlocksTexts == UNION {[1..n -> BlockBodies] : n \in 0..MaxBlocks}

AssembledResponses ==
    {pre \o Concat([j \in 1..Len(bs) |-> <<"F">> \o bs[j]]) :
        pre \in ResponsePreambles, bs \in BlocksTexts}

\* Replies in the format the system prompt of reviewCode prescribes
\* (part_009 117-124): "[FILE]", "[ISSUE]", "[SUGGESTION]" and
\* "[CORRECTED_CODE]" are the tags, each a run of ordinary characters in which
\* none of the parser's three patterns matches.
PrescribedBody ==
    <<"[FILE]", "_", "x", "N", "[ISSUE]", "_", "x", "N",
      "[SUGGESTION]", "_", "x", "N">>
PrescribedBodyWithCode ==
    PrescribedBody \o <<"[CORRECTED_CODE]", "N", "x", "N">>

PrescribedResponses ==
    {Concat(bs) :
        bs \in UNION {[1..n -> {PrescribedBody, PrescribedBodyWithCode}] :
                         n \in 0..MaxBlocks}}

ResponseInputs ==
    ShortResponses \cup AssembledResponses \cup PrescribedResponses

InitParse ==
    /\ DispatchIdle
    /\ ToolIdle
    /\ SegIdle
    /\ FmtIdle
    /\ parsePc = "called"
    /\ aiResponse \in ResponseInputs
    /\ parsed = <<>>

\* The call parseAIResponse(aiResponse) returns.
ParseAIResponse ==
    /\ parsePc = "called"
    /\ parsed' = parseAIResponseText(aiResponse)
    /\ parsePc' = "returned"
    /\ UNCHANGED aiResponse
    /\ UNCHANGED <<dispatchVars, segVars, toolVars, strategy, ciVars, fmtVars>>

NextParse == ParseAIResponse

SpecParse == InitParse /\ [][NextParse]_vars

\* C12: every finding parseAIResponse returns for oracle text that encodes no
\* severity carries severity 'warn', so every oracle finding has a severity
\* in {error, warn, info}.
C12_OracleSeverityDefaultsToWarn ==
    parsePc = "returned" =>
        \A p \in 1..Len(parsed) : parsed[p].severity = "warn"

\* The blocks of a reply: the texts introduced by a file-name marker.
MarkedBlocks(response) == Tail(SplitOn(response, "F"))

\* The block has a file name, an issue description and a suggestion.
HasAllThree(block) ==
    /\ Trim(UpToLineEnd(block)) # <<>>
    /\ \E p \in 1..Len(block) : block[p] = "I"
    /\ \E p \in 1..Len(block) : block[p] = "S"

\* One well-formed block followed by one block without a suggestion.
ExampleResponse == <<"F">> \o WellFormedBody \o <<"F">> \o NoSuggestionBody

\* C14: parseAIResponse returns exactly one finding for each block that has
\* a file name, an issue description and a suggestion, in the order of the
\* blocks, and none for a block missing any of the three; one well-formed
\* block plus one block without a suggestion yields exactly one finding.
C14_OneFindingPerWellFormedBlock ==
    parsePc = "returned" =>
        LET wf == SelectSeq(MarkedBlocks(aiResponse), HasAllThree)
        IN /\ Len(parsed) = Len(wf)
           /\ \A j \in 1..Len(wf) : parsed[j].file = Trim(UpToLineEnd(wf[j]))
           /\ aiResponse = ExampleResponse => Len(parsed) = 1

(***************************************************************************)
(* Further claims about the segmenter.                                     *)
(***************************************************************************)
\* C24: getDiffChunks packs greedily: for every two consecutive chunks,
\* length(earlier chunk) + length(first file-patch of the later chunk)
\* > MAX_DIFF_SIZE; a chunk is sealed only when the next file-patch would
\* not fit.
C24_GreedyPacking ==
    segPc = "returned" =>
        \A c \in 1..(Len(diffChunks) - 1) :
            /\ FilePatches(diffChunks[c + 1]) # <<>>
            /\ StrLen(diffChunks[c]) + StrLen(FilePatches(diffChunks[c + 1])[1])
                  > MAX_DIFF_SIZE

\* C24 witness: two file-patches that fill a chunk exactly were packed
\* together and a third one began the next chunk.
C24_Witness ==
    /\ segPc = "returned"
    /\ Len(diffChunks) = 2
    /\ Len(FilePatches(diffChunks[1])) = 2
    /\ StrLen(diffChunks[1]) = MAX_DIFF_SIZE
    /\ StrLen(diffChunks[1]) + StrLen(FilePatches(diffChunks[2])[1])
          > MAX_DIFF_SIZE

(***************************************************************************)
(* Further claims about the dispatch loop.                                 *)
(***************************************************************************)
\* s is an initial part of t.
IsPrefix(s, t) == Len(s) <= Len(t) /\ SubSeq(t, 1, Len(s)) = s

\* C25: throughout a review or ci run the findings accumulator is
\* append-only, and it is never appended to while any oracle call started by
\* the run is still unsettled.
C25_AppendOnlyWhenAllSettled ==
    [][ /\ IsPrefix(allIssues, allIssues')
        /\ allIssues' # allIssues =>
              \A k \in ChunkIds : calls'[k] # "pending" ]_vars

\* A call is rejected in this step.
RejectStep == \E k \in ChunkIds : calls[k] = "pending" /\ calls'[k] = "rejected"

\* C27: findings of a window are added all-or-nothing: if any oracle call of
\* a window rejects, no finding from the calls of that window that resolved
\* appears in the findings list, and the findings of earlier windows are left
\* unchanged.
C27_WindowAllOrNothing ==
    [][ /\ \A p \in 1..Len(allIssues') :
              allIssues'[p].chunk \in ChunkIds =>
                  \A k \in 1..Len(chunks') :
                      BatchOf(k) = BatchOf(allIssues'[p].chunk)
                          => calls'[k] # "rejected"
        /\ RejectStep => allIssues' = allIssues ]_vars

\* C27 witness: window 1 succeeded with findings; in window 2 one call
\* rejected and another resolved with a finding; the loop is left with the
\* findings of window 1 only.
C27_Witness ==
    /\ command = "review"
    /\ pc = "loopDone"
    /\ totalBatches(chunks) = 2
    /\ WindowSucceeded(1)
    /\ \E k, j \in WindowChunks(2) :
          calls[k] = "rejected" /\ calls[j] = "resolved" /\ responses[j] >= 1
    /\ allIssues # <<>>
    /\ allIssues = BatchIssues(<<>>, 1, CONCURRENCY_LIMIT, responses)

(***************************************************************************)
(* The dispatcher under the assumption that every oracle call settles and  *)
(* every timer fires, over diffs of at most MaxLiveChunks chunks.          *)
(***************************************************************************)
\* The reviewCode promise of chunk k settles.
Settle(k) == RejectCall(k) \/ \E r \in 0..MaxFindings : ResolveCall(k, r)

NextLive ==
    \/ \E n \in 0..MaxLiveChunks : ReviewStart(n)
    \/ \E s \in {"all", "top", "skip"} : ChooseStrategy(s)
    \/ \E n \in 0..MaxLiveChunks : CIStart(n)
    \/ \E k \in ChunkIds, r \in 0..MaxFindings : ResolveCall(k, r)
    \/ \E k \in ChunkIds : RejectCall(k)
    \/ DelayElapsed

SpecLive ==
    /\ Init
    /\ [][NextLive]_vars
    /\ \A k \in ChunkIds : WF_vars(Settle(k))
    /\ WF_vars(DelayElapsed)

\* The run is inside the dispatch loop.
InLoop == pc = "batch" \/ pc = "delay"

\* C28: if every oracle call eventually settles, the dispatch loop of review
\* and ci terminates after at most ceil(n/3) windows, and every chunk is
\* passed to reviewCode at most once (no retry), exactly once when the run is
\* not aborted.
C28_LoopTerminates ==
    /\ InLoop ~> (pc = "loopDone" \/ pc = "exited")
    /\ [](pc = "batch" => batchIndex(i) <= totalBatches(chunks))
    /\ [][\A k \in ChunkIds : calls[k] # "idle" =>
              (calls'[k] = calls[k] \/ calls[k] = "pending")]_vars
    /\ []((pc = "loopDone" \/ CICompleted) =>
              \A k \in ChunkIds : Started(k) <=> k <= Len(chunks))

\* C28 witness: a run of 5 chunks left the loop in its second and last
\* window with every chunk dispatched and settled.
C28_Witness ==
    /\ pc = "loopDone"
    /\ Len(chunks) = GIANT_DIFF_CHUNKS
    /\ batchIndex(i) = totalBatches(chunks)
    /\ \A k \in 1..Len(chunks) : Settled(k)
    /\ \A k \in ChunkIds : Started(k) => k <= Len(chunks)

(***************************************************************************)
(* Further claims about the finding parser.                                *)
(***************************************************************************)
\* The number of blocks of a reply in the prescribed format.
PrescribedBlocks(response) ==
    Len(SelectSeq(response, LAMBDA t : t = "[FILE]"))

\* C26: an oracle reply written in the format the review prompt prescribes
\* ([FILE] name, [ISSUE] description, [SUGGESTION] fix, optional
\* [CORRECTED_CODE] body) with k complete blocks is parsed by parseAIResponse
\* into k findings carrying those file, issue and suggestion values.
C26_PrescribedFormatParsed ==
    (parsePc = "returned" /\ aiResponse \in PrescribedResponses) =>
        /\ Len(parsed) = PrescribedBlocks(aiResponse)
        /\ \A p \in 1..Len(parsed) :
              /\ parsed[p].file = <<"x">>
              /\ parsed[p].issue = <<"x">>
              /\ parsed[p].suggestion = <<"x">>

(***************************************************************************)
(* Further claims about the formatter.                                     *)
(***************************************************************************)
\* A metadata sub-object with its timestamp blanked.
SansTimestamp(metadata) == [metadata EXCEPT !.timestamp = "-"]

\* C21: formatting the same findings list and metadata with formatJSON twice
\* yields outputs identical except for metadata.timestamp: summary and issues
\* are equal and no run-specific value appears outside metadata.
C21_FormatJSONIdempotent ==
    fmtPc = "jsonReturned" =>
        /\ Len(jsonReports) = 2
        /\ jsonReports[1].summary = jsonReports[2].summary
        /\ jsonReports[1].issues = jsonReports[2].issues
        /\ SansTimestamp(jsonReports[1].metadata)
              = SansTimestamp(jsonReports[2].metadata)
        /\ DOMAIN jsonReports[1] = DOMAIN jsonReports[2]

\* C21 witness: a non-empty list was formatted twice and the clock moved on
\* between the calls.
C21_Witness ==
    /\ fmtPc = "jsonReturned"
    /\ Len(issuesArg) >= 1
    /\ jsonReports[1].metadata.timestamp # jsonReports[2].metadata.timestamp
    /\ jsonReports[1].issues = jsonReports[2].issues

(***************************************************************************)
(* The review command after its dispatch loop (part_011 1357-1413): the    *)
(* prompt for each issue and the final confirmation, over diffs of at most *)
(* MaxReviewChunks chunks.                                                 *)
(***************************************************************************)
\* What follows the issue loop: the final confirmation unless silent.
AfterIssues ==
    /\ pc' = IF isSilent THEN "returned" ELSE "finalConfirm"
    /\ issueIdx' = 0
    /\ UNCHANGED <<exitCode, stdout>>

\* The loop is left: 'No issues found', or displayIssues and the prompt for
\* the first issue.
AfterLoop ==
    /\ command = "review"
    /\ pc = "loopDone"
    /\ IF allIssues = <<>>
       THEN AfterIssues
       ELSE /\ pc' = "issuePrompt"
            /\ issueIdx' = 1
            /\ UNCHANGED <<exitCode, stdout>>
    /\ UNCHANGED <<command, isSilent, chunks, i, calls, responses, allIssues,
                   stderr, timer>>
    /\ UNCHANGED <<pureVars, segVars, toolVars, strategy, options, ruleResults, writable,
                   outFile>>

\* The answer to "What would you like to do?".  No finding of parseAIResponse
\* has correctedCode, so the choices are 'skip' and 'abort'.
AnswerIssue(action) ==
    /\ command = "review"
    /\ pc = "issuePrompt"
    /\ IF action = "abort" /\ ~isSilent
       THEN /\ stdout' = Append(stdout, Line("push-aborted", NoBody))
            /\ pc' = "exited"
            /\ exitCode' = 1
            /\ UNCHANGED issueIdx
       ELSE IF action = "abort" \/ issueIdx = Len(allIssues)
            THEN AfterIssues
            ELSE /\ issueIdx' = issueIdx + 1
                 /\ UNCHANGED <<pc, exitCode, stdout>>
    /\ UNCHANGED <<command, isSilent, chunks, i, calls, responses, allIssues,
                   stderr, timer>>
    /\ UNCHANGED <<pureVars, segVars, toolVars, strategy, options, ruleResults, writable,
                   outFile>>

\* The answer to "Would you like to proceed?".
FinalConfirm(proceed) ==
    /\ command = "review"
    /\ pc = "finalConfirm"
    /\ IF proceed
       THEN /\ pc' = "returned"
            /\ UNCHANGED <<exitCode, stdout>>
       ELSE /\ stdout' = Append(stdout, Line("aborted", NoBody))
            /\ pc' = "exited"
            /\ exitCode' = 1
    /\ UNCHANGED <<command, isSilent, chunks, i, calls, responses, allIssues,
                   stderr, timer, issueIdx>>
    /\ UNCHANGED <<pureVars, segVars, toolVars, strategy, options, ruleResults, writable,
                   outFile>>

NextReview ==
    \/ \E n \in 0..MaxReviewChunks : ReviewStart(n)
    \/ \E k \in ChunkIds, r \in 0..MaxFindings : ResolveCall(k, r)
    \/ \E k \in ChunkIds : RejectCall(k)
    \/ DelayElapsed
    \/ AfterLoop
    \/ \E a \in {"skip", "abort"} : AnswerIssue(a)
    \/ \E p \in BOOLEAN : FinalConfirm(p)

SpecReview == Init /\ [][NextReview]_vars

\* The run is waiting on an interactive prompt.
AtPrompt == pc \in {"strategy", "issuePrompt", "finalConfirm"}

\* C22: with --silent (or -s) the review command is non-interactive: from
\* start to exit it never waits on an interactive prompt, for any number of
\* chunks and any number of findings.
C22_SilentNeverPrompts ==
    (command = "review" /\ isSilent) => ~AtPrompt

(***************************************************************************)
(* The commit command (main, command === 'commit').  A message is a        *)
(* sequence of characters; the characters that matter to the command line  *)
(* built by the accept branch are the double quote, the backslash and the  *)
(* backquote, next to an ordinary letter.  SpecCommit runs the command     *)
(* from the staged diff to its return or process.exit(1).                  *)
(***************************************************************************)
Quote == "\""
Backslash == "\\"
\* the character U+0060
Backquote == "backquote"
MessageChars == {"a", Quote, Backslash, Backquote}

\* The strings over MessageChars of at most n characters.
Messages(n) == UNION {[1..m -> MessageChars] : m \in 0..n}

\* What generateCommitMessage resolves with: content.trim(), or the default
\* 'chore: update files' when that is empty, so never the empty string.
GeneratedMessages == Messages(MaxMessage) \ {<<>>}

\* message.replace(/"/g, '\\"')
EscapeQuotes(msg) == ReplaceAll(msg, Quote, <<Backslash, Quote>>)

\* The argument of -m as it stands in the command line handed to execSync.
CommitArg(msg) == <<Quote>> \o EscapeQuotes(msg) \o <<Quote>>

RECURSIVE CloseTick(_, _)
\* /bin/sh: position of the backquote that closes a command substitution
\* whose text begins at k, 0 when there is none.  A backslash quotes a
\* following backquote or backslash.
CloseTick(str, k) ==
    IF k > Len(str) THEN 0
    ELSE IF str[k] = Backquote THEN k
    ELSE IF /\ str[k] = Backslash
            /\ k < Len(str)
            /\ str[k + 1] \in {Backquote, Backslash}
         THEN CloseTick(str, k + 2)
    ELSE CloseTick(str, k + 1)

RECURSIVE ShellWord(_, _, _, _)
\* /bin/sh (the shell of execSync): the word the shell makes of str from
\* position k on, quoted telling whether a double quote is open.  Inside
\* double quotes a backslash quotes only a double quote, a backslash or a
\* backquote; outside it quotes any character.  A command substitution is
\* replaced by the command's output, which is empty for the commands that
\* can be written with MessageChars.  ok is FALSE when the shell reports a
\* syntax error (a quote or a backquote left open).
ShellWord(str, k, quoted, acc) ==
    IF k > Len(str) THEN [ok |-> ~quoted, word |-> acc]
    ELSE IF str[k] = Quote THEN ShellWord(str, k + 1, ~quoted, acc)
    ELSE IF str[k] = Backslash
         THEN IF k = Len(str) THEN [ok |-> ~quoted, word |-> acc]
              ELSE IF ~quoted \/ str[k + 1] \in {Quote, Backslash, Backquote}
                   THEN ShellWord(str, k + 2, quoted, Append(acc, str[k + 1]))
                   ELSE ShellWord(str, k + 1, quoted, Append(acc, Backslash))
    ELSE IF str[k] = Backquote
         THEN IF CloseTick(str, k + 1) = 0 THEN [ok |-> FALSE, word |-> acc]
              ELSE ShellWord(str, CloseTick(str, k + 1) + 1, quoted, acc)
    ELSE ShellWord(str, k + 1, quoted, Append(acc, str[k]))

\* The message git receives from the command line of the accept branch.
ShellMessage(msg) == ShellWord(CommitArg(msg), 1, FALSE, <<>>)

\* execSync returns only when the shell parsed the line and git committed;
\* git refuses an empty message.  Otherwise it throws.
ExecSucceeds(msg) == ShellMessage(msg).ok /\ ShellMessage(msg).word # <<>>

commitFrame ==
    UNCHANGED <<dispatchVars, segVars, strategy, ciVars, pureVars, configVars,
                clientVars>>

\* getStagedDiff resolved; an empty diff ends the command at once.
CommitStart(hasDiff) ==
    /\ commitPc = "idle"
    /\ commitPc' = IF hasDiff THEN "generating" ELSE "returned"
    /\ UNCHANGED <<message, commits>>
    /\ commitFrame

\* let message = await generateCommitMessage(commitDiff)
Generated(msg) ==
    /\ commitPc = "generating"
    /\ commitPc' = "choice"
    /\ message' = msg
    /\ UNCHANGED commits
    /\ commitFrame

\* generateCommitMessage rejected (it rethrows what the client threw):
\* the catch of the command ends the process with status 1.
GenerationFailed ==
    /\ commitPc \in {"generating", "regenerating"}
    /\ commitPc' = "exited"
    /\ UNCHANGED <<message, commits>>
    /\ commitFrame

\* action === 'accept'
Accept ==
    /\ commitPc = "choice"
    /\ IF ExecSucceeds(message)
       THEN /\ commits' = Append(commits, ShellMessage(message).word)
            /\ commitPc' = "returned"
       ELSE /\ UNCHANGED commits
            /\ commitPc' = "exited"
    /\ UNCHANGED message
    /\ commitFrame

\* action === 'edit': the input prompt opens with the message as initial.
Edit ==
    /\ commitPc = "choice"
    /\ commitPc' = "editing"
    /\ UNCHANGED <<message, commits>>
    /\ commitFrame

\* message = newMessage
Edited(newMessage) ==
    /\ commitPc = "editing"
    /\ commitPc' = "choice"
    /\ message' = newMessage
    /\ UNCHANGED commits
    /\ commitFrame

\* action === 'regenerate'
Regenerate ==
    /\ commitPc = "choice"
    /\ commitPc' = "regenerating"
    /\ UNCHANGED <<message, commits>>
    /\ commitFrame

\* message = await generateCommitMessage(commitDiff)
Regenerated(msg) ==
    /\ commitPc = "regenerating"
    /\ commitPc' = "choice"
    /\ message' = msg
    /\ UNCHANGED commits
    /\ commitFrame

\* any other action: 'Commit aborted.'
Abort ==
    /\ commitPc = "choice"
    /\ commitPc' = "returned"
    /\ UNCHANGED <<message, commits>>
    /\ commitFrame

InitCommit ==
    /\ DispatchIdle
    /\ SegIdle
    /\ PureIdle
    /\ ToolIdle

NextCommit ==
    \/ \E hasDiff \in BOOLEAN : CommitStart(hasDiff)
    \/ \E msg \in GeneratedMessages : Generated(msg)
    \/ GenerationFailed
    \/ Accept
    \/ Edit
    \/ \E newMessage \in Messages(MaxMessage) : Edited(newMessage)
    \/ Regenerate
    \/ \E msg \in GeneratedMessages : Regenerated(msg)
    \/ Abort

SpecCommit == InitCommit /\ [][NextCommit]_vars

\* C29: in the commit command git commit is executed at most once per run,
\* only after the user chose 'accept', and with the message most recently
\* produced by generation, regeneration or edit; 'abort' ends the command
\* without committing; 'edit' and 'regenerate' always return to the choice
\* prompt.
C29_CommitOnceWithLatestMessage ==
    /\ [][/\ commits' # commits =>
               /\ commitPc = "choice"
               /\ commits = <<>>
               /\ commits' = <<message>>
          /\ commitPc \in {"editing", "regenerating"} => commitPc' = "choice"
         ]_vars
    /\ [](Len(commits) <= 1)

(***************************************************************************)
(* The global configuration (~/.aicorc) and the AI client.  A JavaScript   *)
(* object is a function from its keys; a value that is a string is itself, *)
(* "undefined" standing for a missing one.  No environment variable        *)
(* (AICO_PROVIDER, *_API_KEY) is set.  SpecConfig runs init up to MaxInits *)
(* times and, at any point, a command that calls createChatCompletion in a *)
(* new process.                                                            *)
(***************************************************************************)
\* The choices of the provider prompt of init.
ProviderChoices == {"groq", "openai", "deepseek", "ollama", "gemini"}

\* defaultModels of init
defaultModels ==
    [provider \in ProviderChoices |->
        CASE provider = "groq" -> "llama-3.3-70b-versatile"
          [] provider = "openai" -> "gpt-4o-mini"
          [] provider = "deepseek" -> "deepseek-chat"
          [] provider = "ollama" -> "llama3"
          [] provider = "gemini" -> "gemini-1.5-flash"]

\* AIClient.getDefaultModel
getDefaultModel(provider) ==
    CASE provider = "groq" -> "llama-3.3-70b-versatile"
      [] provider = "openai" -> "gpt-4o-mini"
      [] provider = "deepseek" -> "deepseek-chat"
      [] provider = "ollama" -> "llama3"
      [] OTHER -> "gpt-3.5-turbo"

\* {}
EmptyObject == [key \in {} |-> "undefined"]

\* !value, for a string or undefined
Falsy(value) == value \in {"undefined", ""}

\* obj.key, for a key whose value is a string
Get(obj, key) == IF key \in DOMAIN obj THEN obj[key] ELSE "undefined"

\* { ...a, ...b }
Spread(a, b) ==
    [key \in DOMAIN a \cup DOMAIN b |-> IF key \in DOMAIN b THEN b[key] ELSE a[key]]

\* loadGlobalConfig() || {}
CurrentConfig == IF configFile = <<>> THEN EmptyObject ELSE configFile[1]

\* saveGlobalConfig(config): the content of the file after the write.
saveGlobalConfig(config) == <<Spread(CurrentConfig, config)>>

\* What the password prompt of init accepts (validate refuses a blank key)
\* and what its input prompts return.
ApiKeys == {"key-1", "key-2"}
BaseUrls == {"", "http://localhost:11434"}
Credentials(provider) == IF provider = "ollama" THEN BaseUrls ELSE ApiKeys
ModelInputs(provider) == {defaultModels[provider], "custom-model"}

\* config.providers[provider] as init fills it.
ProviderSettings(provider, credential, model) ==
    Spread(IF provider = "ollama"
           THEN [key \in {"baseUrl"} |-> credential]
           ELSE [key \in {"apiKey"} |-> credential],
           IF ~Falsy(model) /\ model # defaultModels[provider]
           THEN [key \in {"model"} |-> model]
           ELSE EmptyObject)

\* let config = { provider, providers: {} } with config.providers[provider]
\* filled.
InitConfig(provider, credential, model) ==
    [provider |-> provider,
     providers |-> [p \in {provider} |->
                       ProviderSettings(provider, credential, model)]]

toolFrame == UNCHANGED <<dispatchVars, segVars, strategy, ciVars, pureVars>>

\* init, up to the message 'Configuration saved globally'; the git hook set
\* up after it leaves the configuration alone.
init(provider, credential, model) ==
    /\ Len(initRuns) < MaxInits
    /\ configFile' = saveGlobalConfig(InitConfig(provider, credential, model))
    /\ initRuns' = Append(initRuns, InitConfig(provider, credential, model))
    /\ UNCHANGED <<clientVars, commitVars>>
    /\ toolFrame

\* getActiveProvider()
getActiveProvider ==
    LET config == CurrentConfig
        provider == IF Falsy(Get(config, "provider")) THEN "groq"
                    ELSE config["provider"]
        providers == IF "providers" \in DOMAIN config THEN config["providers"]
                     ELSE EmptyObject
        providerConfig == IF provider \in DOMAIN providers
                          THEN providers[provider] ELSE EmptyObject
    IN  [provider |-> provider,
         apiKey |-> Get(providerConfig, "apiKey"),
         model |-> Get(providerConfig, "model"),
         baseUrl |-> Get(providerConfig, "baseUrl")]

\* new AIClient()
NewAIClient ==
    [client |-> "null", provider |-> "null", apiKey |-> "null",
     model |-> "null", baseUrl |-> "null"]

\* AIClient.updateConfig: the fields of the client after the call.  client
\* is "Groq" for the SDK's client, "fetch" for the OpenAI-compatible one.
updateConfig(self) ==
    LET active == getActiveProvider
    IN  [client |->
            IF Falsy(active.apiKey) /\ active.provider # "ollama" THEN "null"
            ELSE IF active.provider = "groq" THEN "Groq"
            ELSE IF active.provider \in {"openai", "deepseek", "ollama"}
                 THEN "fetch"
            ELSE self.client,
         provider |-> active.provider,
         apiKey |-> active.apiKey,
         model |-> IF Falsy(active.model) THEN getDefaultModel(active.provider)
                   ELSE active.model,
         baseUrl |-> active.baseUrl]

\* AIClient.createChatCompletion on the client of a new process: "sent"
\* when the request went to this.client.chat.completions.create, "threw"
\* for the error 'could not be initialized'.
createChatCompletion ==
    LET self == IF NewAIClient.client = "null" THEN updateConfig(NewAIClient)
                ELSE NewAIClient
    IN  /\ ai' = self
        /\ chatPc' = IF self.client = "null" THEN "threw" ELSE "sent"
        /\ UNCHANGED <<configVars, commitVars>>
        /\ toolFrame

InitConfigSpec ==
    /\ DispatchIdle
    /\ SegIdle
    /\ PureIdle
    /\ ToolIdle

NextConfig ==
    \/ \E provider \in ProviderChoices :
         \E credential \in Credentials(provider), model \in ModelInputs(provider) :
            init(provider, credential, model)
    \/ createChatCompletion

SpecConfig == InitConfigSpec /\ [][NextConfig]_vars

\* The run of init that last saved settings for the provider of run j is j.
LastRunFor(j) ==
    \A k \in (j + 1)..Len(initRuns) : initRuns[k].provider # initRuns[j].provider

\* C30: after init saved settings for provider A and ran again for another
\* provider B, the global config still holds A's saved settings under
\* providers.A next to B's: saveGlobalConfig removes no provider's
\* configuration that the new config does not mention.
C30_InitKeepsOtherProviders ==
    \A j \in 1..Len(initRuns) :
        LastRunFor(j) =>
            /\ initRuns[j].provider \in DOMAIN CurrentConfig["providers"]
            /\ CurrentConfig["providers"][initRuns[j].provider]
                 = initRuns[j].providers[initRuns[j].provider]

\* The client's provider is one init offers and has its API key, or its base
\* URL for ollama.
Configured ==
    /\ ai.provider \in ProviderChoices
    /\ \/ ~Falsy(ai.apiKey)
       \/ ai.provider = "ollama" /\ ~Falsy(ai.baseUrl)

\* C23: for each provider init offers (groq, openai, deepseek, ollama,
\* gemini), once it is active and configured with an API key (a base URL for
\* ollama), createChatCompletion obtains a non-null client and sends the
\* request instead of failing with 'could not be initialized'.
C23_ConfiguredProviderGetsClient ==
    chatPc # "idle" /\ Configured => ai.client # "null" /\ chatPc = "sent"
====
